---- MODULE Spec2Model ----
(***************************************************************************)
(* Smart YouTube Analyzer backend: the transcript request (identifier      *)
(* extraction, two-tier acquisition with Whisper fallback), the segment    *)
(* translator and the structured analysis, as state machines.              *)
(*                                                                         *)
(* Strings are TLA+ strings; TLC evaluates Len, SubSeq and \o on them, so  *)
(* the regular expressions and the string slicing of the code are          *)
(* computed character by character.                                        *)
(***************************************************************************)
EXTENDS Integers, Sequences, FiniteSets, TLC

VARIABLES
    \* ---- transcript request: main.get_transcript + TranscriptService ----
    pc,             \* position of the transcript request handler
    input,          \* request.video_url as received
    video_id,       \* the validated video_url (the extracted id)
    files,          \* names of the files in TEMP_DIR
    whisper_model,  \* TranscriptService.whisper_model: "None" or "loaded"
    audio_path,     \* audio_path of _transcribe_with_whisper ("" when unset)
    exc,            \* exception in flight inside the service
    segs,           \* normalized segments of the path that produced them
    result,         \* the dict returned by TranscriptService.get_transcript
    response,       \* the HTTP response of the request
    hist,           \* per request: how often each step was attempted
    calls,          \* requests handled so far
    \* ---- TranslationService: translate_transcript and translate_text ----
    tr_pc,          \* position of translate_transcript
    transcript,     \* its argument
    target_lang,    \* its argument
    translated,     \* its local list, the value it returns
    i,              \* the batch offset of its for loop
    translator,     \* TranslationService.translator: the client in use
    ctx_client,     \* the client of the running `async with` (0: none)
    clients,        \* clients created so far (they are numbered 1, 2, ...)
    open_clients,   \* the clients not closed
    pending,        \* what the call in flight came back with
    attempts,       \* calls made for the current batch / text
    tr_log,         \* per settled batch of this pass: how it went
    first_input,    \* the transcript the first pass was given
    passes,         \* passes started
    tt_pc,          \* position of translate_text
    tt_text,        \* its argument
    tt_result,      \* the string it returned
    tt_log,         \* what it did, in order
    \* ---- AIService.generate_analysis ----
    an_pc,          \* position of generate_analysis
    an_prompt,      \* the transcript document put into the prompt
    an_text,        \* response.text of the generative capability
    an_result,      \* what generate_analysis ended with
    \* ---- the server process: requests in flight on its one event loop ----
    rq,             \* per slot: the request in it and where its handler is
    running,        \* the slot whose handler holds the event loop (0: none)
    served          \* requests received so far

acqVars == <<pc, input, video_id, files, whisper_model, audio_path, exc, segs,
             result, response, hist, calls>>

trVars == <<tr_pc, transcript, target_lang, translated, i, translator, ctx_client,
            clients, open_clients, pending, attempts, tr_log, first_input, passes,
            tt_pc, tt_text, tt_result, tt_log>>

anVars == <<an_pc, an_prompt, an_text, an_result>>

srvVars == <<rq, running, served>>

vars == <<acqVars, trVars, anVars, srvVars>>

\* ------------------------------------------------------------------ bounds

\* Transcript requests per run of the process.
MaxCalls == 2

\* Segments of a transcript given to the translator.
MaxSegs == 31

\* Successive translation passes, each fed the output of the one before.
MaxPasses == 2

\* Requests the server receives per run of the process.
MaxRequests == 3

\* ------------------------------------------------------- string helpers

Min(S) == CHOOSE x \in S : \A y \in S : x <= y

CharAt(s, p) == SubSeq(s, p, p)

\* str.startswith at offset p (1-based)
StartsAt(s, p, lit) ==
    /\ p >= 1
    /\ p + Len(lit) - 1 <= Len(s)
    /\ SubSeq(s, p, p + Len(lit) - 1) = lit

StartsWith(s, lit) == StartsAt(s, 1, lit)

EndsWith(s, lit) ==
    /\ Len(lit) <= Len(s)
    /\ SubSeq(s, Len(s) - Len(lit) + 1, Len(s)) = lit

\* ------------------------------------------------ VideoRequest validator

\* The character class [a-zA-Z0-9_-]
IdChars ==
    {"a","b","c","d","e","f","g","h","i","j","k","l","m",
     "n","o","p","q","r","s","t","u","v","w","x","y","z",
     "A","B","C","D","E","F","G","H","I","J","K","L","M",
     "N","O","P","Q","R","S","T","U","V","W","X","Y","Z",
     "0","1","2","3","4","5","6","7","8","9","_","-"}

\* {11} of the patterns
IdLen == 11

NoMatch == [matched |-> FALSE]
Match(g) == [matched |-> TRUE, group |-> g]

\* ([a-zA-Z0-9_-]{11}) matched at offset p
IdRunAt(s, p) ==
    /\ p >= 1
    /\ p + IdLen - 1 <= Len(s)
    /\ \A k \in p..(p + IdLen - 1) : CharAt(s, k) \in IdChars

WatchLit == "youtube.com/watch?v="
ShortLit == "youtu.be/"

\* (?:youtube\.com\/watch\?v=|youtu\.be\/)([a-zA-Z0-9_-]{11}) anchored at p:
\* the alternatives are tried left to right.
UrlPatternAt(s, p) ==
    IF StartsAt(s, p, WatchLit) /\ IdRunAt(s, p + Len(WatchLit))
    THEN Match(SubSeq(s, p + Len(WatchLit), p + Len(WatchLit) + IdLen - 1))
    ELSE IF StartsAt(s, p, ShortLit) /\ IdRunAt(s, p + Len(ShortLit))
    THEN Match(SubSeq(s, p + Len(ShortLit), p + Len(ShortLit) + IdLen - 1))
    ELSE NoMatch

\* re.search of the first pattern: the leftmost offset at which it matches.
SearchUrlPattern(s) ==
    LET ps == {p \in 1..Len(s) : UrlPatternAt(s, p).matched}
    IN  IF ps = {} THEN NoMatch ELSE UrlPatternAt(s, Min(ps))

\* re.search of ^([a-zA-Z0-9_-]{11})$ : ^ is the start of the string, $ is
\* the end of the string or the place before a newline that ends it.
SearchIdPattern(s) ==
    IF /\ IdRunAt(s, 1)
       /\ \/ Len(s) = IdLen
          \/ Len(s) = IdLen + 1 /\ CharAt(s, IdLen + 1) = "\n"
    THEN Match(SubSeq(s, 1, IdLen))
    ELSE NoMatch

\* VideoRequest.extract_video_id: the first pattern that matches decides;
\* NoMatch stands for the ValueError.
extract_video_id(v) ==
    IF SearchUrlPattern(v).matched THEN SearchUrlPattern(v)
    ELSE IF SearchIdPattern(v).matched THEN SearchIdPattern(v)
    ELSE NoMatch

\* ------------------------------------------------------------ exceptions

NoExc == [raised |-> FALSE]
Raise(c, m) == [raised |-> TRUE, cls |-> c, msg |-> m]

\* Classes the steps raise; every one derives from Exception.
ExceptionClasses ==
    {"TranscriptsDisabled", "NoTranscriptFound", "DownloadError",
     "FileNotFoundError", "RuntimeError", "KeyError", "MemoryError"}

\* What ydl.download raises: yt-dlp's DownloadError, with its message.
DownloadErrors == {Raise("DownloadError", "ERROR: [youtube] Video unavailable")}

\* What whisper.load_model and transcribe raise. str(e) is the message the
\* exception was raised with: "" for one raised without arguments, as the
\* interpreter's MemoryError is.
WhisperErrors ==
    {Raise("RuntimeError", "Failed to load audio"), Raise("MemoryError", "")}

\* A handler that names the two imported youtube_transcript_api errors only.
NarrowPrimaryCatches(e) == e.cls \in {"TranscriptsDisabled", "NoTranscriptFound"}

\* `except Exception` of get_transcript's primary try
PrimaryCatches(e) == e.cls \in ExceptionClasses

\* `except Exception` of get_transcript's fallback try
FallbackCatches(e) == e.cls \in ExceptionClasses

\* Optional[str]
None == [some |-> FALSE]
Some(v) == [some |-> TRUE, val |-> v]

\* ------------------------------------------------------ capability data

Whitespace == {" ", "\n", "\t"}

RECURSIVE LStrip(_)
LStrip(s) ==
    IF Len(s) > 0 /\ CharAt(s, 1) \in Whitespace
    THEN LStrip(SubSeq(s, 2, Len(s)))
    ELSE s

RECURSIVE RStrip(_)
RStrip(s) ==
    IF Len(s) > 0 /\ CharAt(s, Len(s)) \in Whitespace
    THEN RStrip(SubSeq(s, 1, Len(s) - 1))
    ELSE s

\* str.strip()
Strip(s) == RStrip(LStrip(s))

\* What the transcript index returns for a video: records that may lack
\* "duration", or (another library version) lack "text".
RawOfficialLists ==
    { <<>>,
      <<[text |-> "hello", start |-> 0, duration |-> 2]>>,
      <<[text |-> "hello", start |-> 0], [text |-> "world", start |-> 2, duration |-> 1]>>,
      <<[start |-> 0, duration |-> 2]>> }

\* What whisper's transcribe returns.
WhisperResults ==
    { [segments |-> <<>>],
      [segments |-> <<[text |-> " hello ", start |-> 0, end |-> 3]>>],
      [segments |-> <<[text |-> "a", start |-> 0, end |-> 1],
                      [text |-> "b\n", start |-> 1, end |-> 4]>>],
      [text |-> "hello"] }

\* _fetch_youtube_transcript, lines 124-131: segment["text"] raises KeyError
\* on a record without it; duration defaults to 0.
NormalizableOfficial(raw) ==
    \A k \in 1..Len(raw) : {"text", "start"} \subseteq DOMAIN raw[k]

NormalizeOfficial(raw) ==
    [k \in 1..Len(raw) |->
        [text |-> raw[k].text,
         start |-> raw[k].start,
         duration |-> IF "duration" \in DOMAIN raw[k] THEN raw[k].duration ELSE 0]]

\* _transcribe_with_whisper, lines 165-171
NormalizableWhisper(res) == "segments" \in DOMAIN res

NormalizeWhisper(res) ==
    [k \in 1..Len(res.segments) |->
        [text |-> Strip(res.segments[k].text),
         start |-> res.segments[k].start,
         duration |-> res.segments[k].end - res.segments[k].start]]

\* --------------------------------------------------- TranslationService

\* self.batch_size
batch_size == 15

\* max_retries of translate_text
max_retries == 3

NoPending == [kind |-> "none"]

\* TranslationService.__init__: self.translator = Translator(), client 1.
TrIdle ==
    /\ tr_pc = "idle"
    /\ transcript = <<>>
    /\ target_lang = ""
    /\ translated = <<>>
    /\ i = 0
    /\ translator = 1
    /\ ctx_client = 0
    /\ clients = 1
    /\ open_clients = {1}
    /\ pending = NoPending
    /\ attempts = 0
    /\ tr_log = <<>>
    /\ first_input = <<>>
    /\ passes = 0
    /\ tt_pc = "idle"
    /\ tt_text = ""
    /\ tt_result = ""
    /\ tt_log = <<>>

\* ------------------------------------------------------------ AIService

NoOutcome == [kind |-> "none"]

AnIdle ==
    /\ an_pc = "idle"
    /\ an_prompt = ""
    /\ an_text = ""
    /\ an_result = NoOutcome

\* ------------------------------------------------------------ the server

\* Requests that can be in flight together.
Slots == {1, 2}

\* A slot with no request in it.
FreeSlot ==
    [kind |-> "none", pc |-> "free", n |-> 0, lang |-> "", ctx |-> 0, off |-> 0,
     call |-> [client |-> 0, closed |-> FALSE], log |-> <<>>, ext |-> 0, status |-> 0,
     detail |-> ""]

\* The process after start-up: no request yet, the event loop idle.
SrvIdle ==
    /\ rq = [s \in Slots |-> FreeSlot]
    /\ running = 0
    /\ served = 0

\* ------------------------------------------------- transcript request

NoResult == [source |-> "none"]
NoResponse == [status |-> 0]

ZeroHist ==
    [official |-> 0, fetch_calls |-> 0, offline |-> 0, download |-> 0,
     load |-> 0, transcribe |-> 0, cleanup |-> 0,
     official_failed |-> FALSE, returned |-> FALSE, raised |-> FALSE]

\* output_path of _download_audio, and the name yt-dlp gives the stream it
\* downloads ('outtmpl': "{video_id}.%(ext)s") before FFmpegExtractAudio
\* turns it into the mp3.
Mp3Path(v) == v \o ".mp3"
StreamPath(v) == v \o ".webm"

\* Request bodies: a locator built from a prefix, a host part, a token and
\* a tail. The validator sees only the resulting string.
Prefixes == {"", "https://www.", "see "}
HostParts == {"", "youtube.com/watch?v=", "youtube.com/watch?t=10&v=", "youtu.be/"}
Tokens == {"abc12345678", "dQw4w9WgXcQ", "abc1234567!", "abc123456789"}
Tails == {"", "&t=10", "\n"}

Inputs == {p \o h \o t \o e : p \in Prefixes, h \in HostParts, t \in Tokens, e \in Tails}

\* The transcript service before its first request.
AcqIdle ==
    /\ pc = "idle"
    /\ input = ""
    /\ video_id = ""
    /\ files = {}
    /\ whisper_model = "None"
    /\ audio_path = ""
    /\ exc = NoExc
    /\ segs = <<>>
    /\ result = NoResult
    /\ response = NoResponse
    /\ hist = ZeroHist
    /\ calls = 0

\* POST /api/transcript arrives: pydantic runs the validator on video_url;
\* its ValueError is answered 422 and the endpoint body never runs.
Request(s) ==
    /\ pc = "idle"
    /\ calls < MaxCalls
    /\ calls' = calls + 1
    /\ input' = s
    /\ LET m == extract_video_id(s)
       IN  IF m.matched
           THEN /\ video_id' = m.group
                /\ response' = NoResponse
                /\ pc' = "official"
           ELSE /\ video_id' = ""
                /\ response' = [status |-> 422, detail |-> "Invalid YouTube URL or video ID"]
                /\ pc' = "responded"
    /\ UNCHANGED <<files, whisper_model, audio_path, exc, segs, result, hist>>
    /\ UNCHANGED <<trVars, anVars, srvVars>>

\* The call surface of the installed youtube_transcript_api, as the hasattr
\* probes of _fetch_youtube_transcript see it.
LibShapes == [module_get : BOOLEAN, class_get : BOOLEAN, instance_get : BOOLEAN]

CallOutcomes == {"list", "raise"}

\* _fetch_youtube_transcript, lines 89-119: the three call patterns, each
\* tried only while transcript_list is None; an exception of a call leaves
\* transcript_list None. got: transcript_list is not None; ncalls: library
\* calls made.
ProbeTranscript(shape, o1, o2, o3) ==
    LET try1  == shape.module_get
        got1  == try1 /\ o1 = "list"
        try2  == ~got1 /\ (shape.class_get \/ shape.instance_get)
        got2  == try2 /\ o2 = "list"
        try3  == ~got1 /\ ~got2 /\ shape.module_get
        got3  == try3 /\ o3 = "list"
    IN  [got |-> got1 \/ got2 \/ got3,
         ncalls |-> (IF try1 THEN 1 ELSE 0) + (IF try2 THEN 1 ELSE 0)
                    + (IF try3 THEN 1 ELSE 0)]

\* The exception _fetch_youtube_transcript ends with, NoExc when it returns.
FetchException(got, raw) ==
    IF ~got
    THEN Raise("RuntimeError", "Unable to obtain transcript via youtube_transcript_api")
    ELSE IF ~NormalizableOfficial(raw) THEN Raise("KeyError", "'text'")
    ELSE NoExc

\* The dict of get_transcript's last handler: "error": str(e)
ErrorResult(e) ==
    [transcript |-> <<>>, source |-> "error", success |-> FALSE, error |-> e.msg]

\* get_transcript, lines 48-58: the primary try.
FetchOfficial ==
    /\ pc = "official"
    /\ \E shape \in LibShapes, o1 \in CallOutcomes, o2 \in CallOutcomes,
          o3 \in CallOutcomes, raw \in RawOfficialLists :
          LET pr == ProbeTranscript(shape, o1, o2, o3)
              e  == FetchException(pr.got, raw)
          IN  IF ~e.raised
              THEN /\ result' = [transcript |-> NormalizeOfficial(raw),
                                 source |-> "youtube_api", success |-> TRUE]
                   /\ segs' = NormalizeOfficial(raw)
                   /\ exc' = NoExc
                   /\ pc' = "respond"
                   /\ hist' = [hist EXCEPT !.official = @ + 1,
                                           !.fetch_calls = @ + pr.ncalls,
                                           !.returned = TRUE]
              ELSE IF PrimaryCatches(e)
              THEN /\ pc' = "download"
                   /\ exc' = NoExc
                   /\ hist' = [hist EXCEPT !.official = @ + 1,
                                           !.fetch_calls = @ + pr.ncalls,
                                           !.official_failed = TRUE]
                   /\ UNCHANGED <<result, segs>>
              ELSE /\ pc' = "respond"
                   /\ exc' = e
                   /\ hist' = [hist EXCEPT !.official = @ + 1,
                                           !.fetch_calls = @ + pr.ncalls,
                                           !.official_failed = TRUE,
                                           !.raised = TRUE]
                   /\ UNCHANGED <<result, segs>>
    /\ UNCHANGED <<input, video_id, files, whisper_model, audio_path, response, calls>>
    /\ UNCHANGED <<trVars, anVars, srvVars>>

\* How ydl.download([url]) ends: the stream cannot be fetched; the stream is
\* written and FFmpegExtractAudio fails on it, before or after it began to
\* write the mp3; the call returns but left no mp3 at output_path; the mp3
\* is there (the stream file replaced by it).
DownloadOutcomes ==
    {"download_error", "decode_error", "decode_error_partial", "no_mp3", "ok"}

\* The files of TEMP_DIR after ydl.download([url]) for video v.
FilesAfterDownload(fs, v, o) ==
    IF o = "download_error" THEN fs
    ELSE IF o \in {"decode_error", "no_mp3"} THEN fs \cup {StreamPath(v)}
    ELSE IF o = "decode_error_partial" THEN fs \cup {StreamPath(v), Mp3Path(v)}
    ELSE (fs \ {StreamPath(v)}) \cup {Mp3Path(v)}

\* The exception _download_audio ends with, NoExc when it returns output_path.
DownloadException(fs, v, o, err) ==
    IF o \in {"download_error", "decode_error", "decode_error_partial"}
    THEN err
    ELSE IF Mp3Path(v) \notin fs
    THEN Raise("FileNotFoundError", "Audio file not found after download: " \o Mp3Path(v))
    ELSE NoExc

\* A lazy load that does not look at the cache.
AlwaysLoad(m) == TRUE

\* Line 156: `if self.whisper_model is None`
NeedsLoad(m) == m = "None"

\* get_transcript line 63 entering _transcribe_with_whisper, whose line 152
\* runs _download_audio outside the try/finally: an exception of the
\* download leaves through get_transcript's fallback handler at once.
DownloadAudio ==
    /\ pc = "download"
    /\ \E o \in DownloadOutcomes, err \in DownloadErrors :
          LET fs == FilesAfterDownload(files, video_id, o)
              e  == DownloadException(fs, video_id, o, err)
          IN  /\ files' = fs
              /\ IF ~e.raised
                 THEN /\ audio_path' = Mp3Path(video_id)
                      /\ pc' = IF NeedsLoad(whisper_model) THEN "load" ELSE "transcribe"
                      /\ hist' = [hist EXCEPT !.offline = @ + 1, !.download = @ + 1]
                      /\ UNCHANGED <<result, exc>>
                 ELSE IF FallbackCatches(e)
                 THEN /\ result' = ErrorResult(e)
                      /\ pc' = "respond"
                      /\ hist' = [hist EXCEPT !.offline = @ + 1, !.download = @ + 1,
                                              !.returned = TRUE]
                      /\ UNCHANGED <<audio_path, exc>>
                 ELSE /\ exc' = e
                      /\ pc' = "respond"
                      /\ hist' = [hist EXCEPT !.offline = @ + 1, !.download = @ + 1,
                                              !.raised = TRUE]
                      /\ UNCHANGED <<audio_path, result>>
    /\ UNCHANGED <<input, video_id, whisper_model, segs, response, calls>>
    /\ UNCHANGED <<trVars, anVars, srvVars>>

\* _transcribe_with_whisper, lines 156-158: the lazy load, inside the try.
LoadModel ==
    /\ pc = "load"
    /\ hist' = [hist EXCEPT !.load = @ + 1]
    /\ \E ok \in BOOLEAN, err \in WhisperErrors :
          IF ok
          THEN /\ whisper_model' = "loaded"
               /\ pc' = "transcribe"
               /\ exc' = NoExc
          ELSE /\ whisper_model' = whisper_model
               /\ pc' = "cleanup"
               /\ exc' = err
    /\ UNCHANGED <<input, video_id, files, audio_path, segs, result, response, calls>>
    /\ UNCHANGED <<trVars, anVars, srvVars>>

\* _transcribe_with_whisper, lines 162-174: transcribe and format.
Transcribe ==
    /\ pc = "transcribe"
    /\ hist' = [hist EXCEPT !.transcribe = @ + 1]
    /\ pc' = "cleanup"
    /\ \E ok \in BOOLEAN, err \in WhisperErrors, res \in WhisperResults :
          IF ~ok
          THEN exc' = err /\ segs' = segs
          ELSE IF ~NormalizableWhisper(res)
          THEN exc' = Raise("KeyError", "'segments'") /\ segs' = segs
          ELSE exc' = NoExc /\ segs' = NormalizeWhisper(res)
    /\ UNCHANGED <<input, video_id, files, whisper_model, audio_path, result, response, calls>>
    /\ UNCHANGED <<trVars, anVars, srvVars>>

\* The finally block, lines 176-180
RemoveAudio(fs, path) == IF path \in fs THEN fs \ {path} ELSE fs

\* The finally block, then get_transcript's lines 64-76: the return of the
\* whisper result, or the fallback handler.
Cleanup ==
    /\ pc = "cleanup"
    /\ files' = RemoveAudio(files, audio_path)
    /\ pc' = "respond"
    /\ IF ~exc.raised
       THEN /\ result' = [transcript |-> segs, source |-> "whisper", success |-> TRUE]
            /\ hist' = [hist EXCEPT !.cleanup = @ + 1, !.returned = TRUE]
            /\ exc' = exc
       ELSE IF FallbackCatches(exc)
       THEN /\ result' = ErrorResult(exc)
            /\ hist' = [hist EXCEPT !.cleanup = @ + 1, !.returned = TRUE]
            /\ exc' = NoExc
       ELSE /\ result' = result
            /\ hist' = [hist EXCEPT !.cleanup = @ + 1, !.raised = TRUE]
            /\ exc' = exc
    /\ UNCHANGED <<input, video_id, whisper_model, audio_path, segs, response, calls>>
    /\ UNCHANGED <<trVars, anVars, srvVars>>

\* dict.get("error")
GetError(r) == IF "error" \in DOMAIN r THEN Some(r.error) ELSE None

\* main.get_transcript, lines 147-157: the TranscriptResponse, or the
\* HTTPException for an exception that left the service.
Respond ==
    /\ pc = "respond"
    /\ pc' = "responded"
    /\ response' =
          IF hist.raised
          THEN [status |-> 500, detail |-> exc.msg]
          ELSE [status |-> 200, video_id |-> video_id, transcript |-> result.transcript,
                source |-> result.source, success |-> result.success,
                error |-> GetError(result)]
    /\ UNCHANGED <<input, video_id, files, whisper_model, audio_path, exc, segs,
                   result, hist, calls>>
    /\ UNCHANGED <<trVars, anVars, srvVars>>

\* The request is over: its request-scoped data is dropped. The files of
\* TEMP_DIR and the service singleton (whisper_model) stay.
Finish ==
    /\ pc = "responded"
    /\ pc' = "idle"
    /\ input' = ""
    /\ video_id' = ""
    /\ audio_path' = ""
    /\ exc' = NoExc
    /\ segs' = <<>>
    /\ result' = NoResult
    /\ response' = NoResponse
    /\ hist' = ZeroHist
    /\ UNCHANGED <<files, whisper_model, calls>>
    /\ UNCHANGED <<trVars, anVars, srvVars>>

AcqNext ==
    \/ \E s \in Inputs : Request(s)
    \/ FetchOfficial
    \/ DownloadAudio
    \/ LoadModel
    \/ Transcribe
    \/ Cleanup
    \/ Respond
    \/ Finish

Init == AcqIdle /\ TrIdle /\ AnIdle /\ SrvIdle

SpecAcquire == Init /\ [][AcqNext]_vars

\* ------------------------------------------- translate_transcript

\* What the translation capability makes of a text: opaque, and told apart
\* from its input by the language it was asked for.
Translated(t, lang) == "[" \o lang \o "]" \o t

TargetLangs == {"vi", "en"}

SegText(k) == IF k % 3 = 1 THEN "good morning" ELSE IF k % 3 = 2 THEN "thanks" ELSE "ok"

\* Which segments of the first transcript already carry an "original".
OrigModes == {"none", "odd"}

InputSegment(k, mode) ==
    IF mode = "odd" /\ k % 2 = 1
    THEN [text |-> SegText(k), start |-> k - 1, duration |-> k % 2,
          original |-> "src:" \o SegText(k)]
    ELSE [text |-> SegText(k), start |-> k - 1, duration |-> k % 2]

InputTranscript(n, mode) == [k \in 1..n |-> InputSegment(k, mode)]

\* A slice that holds the first segment at the offset only.
SingleSegmentBatch(ts, off) == SubSeq(ts, off + 1, off + 1)

\* transcript[i:i + self.batch_size]
Batch(ts, off) == SubSeq(ts, off + 1, IF off + batch_size < Len(ts) THEN off + batch_size ELSE Len(ts))

\* [seg["text"] for seg in batch]
BatchTexts(b) == [k \in 1..Len(b) |-> b[k].text]

\* An "original" that is always the incoming text.
OverwrittenOriginal(segment) == IF "text" \in DOMAIN segment THEN segment.text ELSE ""

\* segment.get("original", segment.get("text", ""))
Original(segment) ==
    IF "original" \in DOMAIN segment THEN segment.original
    ELSE IF "text" \in DOMAIN segment THEN segment.text
    ELSE ""

\* How `await self.translator.translate(texts, dest=target_lang)` ends: it
\* raises, or returns one result per text, one fewer, or one more.
BatchOutcomes == {"raise", "ok", "short", "long"}

BatchResults(texts, lang, o) ==
    LET full == [k \in 1..Len(texts) |-> Translated(texts[k], lang)]
    IN  IF o = "short" THEN SubSeq(full, 1, Len(full) - 1)
        ELSE IF o = "long" THEN Append(full, Translated("", lang))
        ELSE full

\* A handler that gives up the batch's texts.
DroppedFallback(texts) == <<>>

\* translate_batch's handler, lines 223-226: `return texts`.
BatchFallback(texts) == texts

\* A handler that has the call made again, max_retries attempts in all.
RetryBatchThrice(n) == n < max_retries

\* translate_batch's handler returns at once: the call is not made again.
RetryBatch(n) == FALSE

\* `async with Translator() as translator: self.translator = translator`
\* and the locals of translate_transcript, lines 232-238.
BeginPass(ts, lang) ==
    /\ transcript' = ts
    /\ target_lang' = lang
    /\ translated' = <<>>
    /\ i' = 0
    /\ clients' = clients + 1
    /\ ctx_client' = clients + 1
    /\ translator' = clients + 1
    /\ open_clients' = open_clients \cup {clients + 1}
    /\ pending' = NoPending
    /\ attempts' = 0
    /\ tr_log' = <<>>
    /\ tr_pc' = IF Len(ts) > 0 THEN "batch" ELSE "exit"

StartTranslate(n, mode, lang) ==
    /\ tr_pc = "idle"
    /\ tt_pc = "idle"
    /\ passes = 0
    /\ passes' = 1
    /\ first_input' = InputTranscript(n, mode)
    /\ BeginPass(InputTranscript(n, mode), lang)
    /\ UNCHANGED <<tt_pc, tt_text, tt_result, tt_log>>
    /\ UNCHANGED <<acqVars, anVars, srvVars>>

\* The caller translates the returned transcript again.
NextPass(lang) ==
    /\ tr_pc = "done"
    /\ passes < MaxPasses
    /\ passes' = passes + 1
    /\ BeginPass(translated, lang)
    /\ UNCHANGED <<first_input, tt_pc, tt_text, tt_result, tt_log>>
    /\ UNCHANGED <<acqVars, anVars, srvVars>>

\* translate_batch, line 218: the bulk call, through self.translator.
BatchCall ==
    /\ tr_pc = "batch"
    /\ tr_pc' = "settle"
    /\ attempts' = attempts + 1
    /\ \E o \in BatchOutcomes :
          pending' = [kind |-> o, client |-> translator,
                      results |-> IF o = "raise" THEN <<>>
                                  ELSE BatchResults(BatchTexts(Batch(transcript, i)), target_lang, o)]
    /\ UNCHANGED <<transcript, target_lang, translated, i, translator, ctx_client,
                   clients, open_clients, tr_log, first_input, passes,
                   tt_pc, tt_text, tt_result, tt_log>>
    /\ UNCHANGED <<acqVars, anVars, srvVars>>

\* The segments lines 248-255 append for one batch.
Combine(b, texts) ==
    [j \in 1..Len(b) |->
        [text |-> texts[j], start |-> b[j].start, duration |-> b[j].duration,
         original |-> Original(b[j])]]

\* translate_batch's return (lines 221-226), then lines 248-263: the
\* segments of the batch are appended; translated_texts[j] raises
\* IndexError past the end of a short list, which leaves the `async with`
\* (closing its client) and translate_transcript.
BatchSettle ==
    /\ tr_pc = "settle"
    /\ LET b     == Batch(transcript, i)
           texts == IF pending.kind = "raise" THEN BatchFallback(BatchTexts(b))
                    ELSE pending.results
           entry == [offset |-> i, size |-> Len(b), attempts |-> attempts,
                     outcome |-> pending.kind, client |-> pending.client]
       IN  IF pending.kind = "raise" /\ RetryBatch(attempts)
           THEN /\ tr_pc' = "batch"
                /\ UNCHANGED <<translated, i, attempts, tr_log, ctx_client, open_clients>>
           ELSE IF Len(texts) < Len(b)
           THEN /\ tr_pc' = "aborted"
                /\ tr_log' = Append(tr_log, entry)
                /\ open_clients' = open_clients \ {ctx_client}
                /\ ctx_client' = 0
                /\ UNCHANGED <<translated, i, attempts>>
           ELSE /\ translated' = translated \o Combine(b, texts)
                /\ tr_log' = Append(tr_log, entry)
                /\ i' = i + batch_size
                /\ attempts' = 0
                /\ tr_pc' = IF i + batch_size < Len(transcript) THEN "sleep" ELSE "exit"
                /\ UNCHANGED <<ctx_client, open_clients>>
    /\ pending' = NoPending
    /\ UNCHANGED <<transcript, target_lang, translator, clients, first_input, passes,
                   tt_pc, tt_text, tt_result, tt_log>>
    /\ UNCHANGED <<acqVars, anVars, srvVars>>

\* await asyncio.sleep(0.5) between batches, lines 262-263
Pace ==
    /\ tr_pc = "sleep"
    /\ tr_pc' = "batch"
    /\ UNCHANGED <<transcript, target_lang, translated, i, translator, ctx_client,
                   clients, open_clients, pending, attempts, tr_log, first_input,
                   passes, tt_pc, tt_text, tt_result, tt_log>>
    /\ UNCHANGED <<acqVars, anVars, srvVars>>

\* The end of the `async with` and `return translated`, lines 265-266
ExitTranslate ==
    /\ tr_pc = "exit"
    /\ tr_pc' = "done"
    /\ open_clients' = open_clients \ {ctx_client}
    /\ ctx_client' = 0
    /\ UNCHANGED <<transcript, target_lang, translated, i, translator, clients,
                   pending, attempts, tr_log, first_input, passes,
                   tt_pc, tt_text, tt_result, tt_log>>
    /\ UNCHANGED <<acqVars, anVars, srvVars>>

\* ---------------------------------------------------- translate_text

TextInputs == {"", "  ", "thanks"}

\* How `await self.translator.translate(text, src='auto', dest=...)` ends:
\* a result with text, a result without, an exception.
TextOutcomes == {"ok", "empty", "raise"}

\* The retry guard, line 198: attempt < max_retries - 1 (attempt from 0)
RetryText(attempt) == attempt < max_retries - 1

\* Lines 179-180: an empty or blank text is returned as it is.
TTStart(text, lang) ==
    /\ tt_pc = "idle"
    /\ tr_pc = "idle"
    /\ tt_text' = text
    /\ target_lang' = lang
    /\ attempts' = 0
    /\ tt_log' = <<>>
    /\ IF text = "" \/ Strip(text) = ""
       THEN tt_pc' = "done" /\ tt_result' = text
       ELSE tt_pc' = "call" /\ tt_result' = ""
    /\ UNCHANGED <<tr_pc, transcript, translated, i, translator, ctx_client, clients,
                   open_clients, pending, tr_log, first_input, passes>>
    /\ UNCHANGED <<acqVars, anVars, srvVars>>

\* Lines 183-204: one attempt; `attempts` is the loop variable attempt.
TTCall ==
    /\ tt_pc = "call"
    /\ \E o \in TextOutcomes :
          /\ tt_log' = Append(tt_log, [ev |-> "call", client |-> translator,
                                       attempt |-> attempts + 1, outcome |-> o])
          /\ IF o = "ok"
             THEN tt_pc' = "done" /\ tt_result' = Translated(tt_text, target_lang)
             ELSE IF o = "empty"
             THEN tt_pc' = "done" /\ tt_result' = tt_text
             ELSE IF RetryText(attempts)
             THEN tt_pc' = "sleep" /\ tt_result' = tt_result
             ELSE tt_pc' = "done" /\ tt_result' = tt_text
    /\ UNCHANGED <<tr_pc, transcript, target_lang, translated, i, translator, ctx_client,
                   clients, open_clients, pending, attempts, tr_log, first_input,
                   passes, tt_text>>
    /\ UNCHANGED <<acqVars, anVars, srvVars>>

\* Lines 200-201: await asyncio.sleep(1), then self.translator = Translator()
\* (the client it replaces is not closed), and the next attempt.
TTRetry ==
    /\ tt_pc = "sleep"
    /\ tt_pc' = "call"
    /\ attempts' = attempts + 1
    /\ clients' = clients + 1
    /\ translator' = clients + 1
    /\ open_clients' = open_clients \cup {clients + 1}
    /\ tt_log' = tt_log \o <<[ev |-> "sleep", seconds |-> 1],
                             [ev |-> "new_client", client |-> clients + 1]>>
    /\ UNCHANGED <<tr_pc, transcript, target_lang, translated, i, ctx_client,
                   pending, tr_log, first_input, passes, tt_text, tt_result>>
    /\ UNCHANGED <<acqVars, anVars, srvVars>>

TrNext ==
    \/ \E n \in 0..MaxSegs, mode \in OrigModes, lang \in TargetLangs : StartTranslate(n, mode, lang)
    \/ \E lang \in TargetLangs : NextPass(lang)
    \/ BatchCall
    \/ BatchSettle
    \/ Pace
    \/ ExitTranslate
    \/ \E text \in TextInputs, lang \in TargetLangs : TTStart(text, lang)
    \/ TTCall
    \/ TTRetry

SpecTranslate == Init /\ [][TrNext]_vars

\* ------------------------------------------------- generate_analysis

\* f"{n:02d}" for n >= 0
TwoDigits(n) == IF n < 10 THEN "0" \o ToString(n) ELSE ToString(n)

\* AIService._format_timestamp (seconds already truncated to an integer)
format_timestamp(seconds) ==
    LET hours   == seconds \div 3600
        minutes == (seconds % 3600) \div 60
        secs    == seconds % 60
    IN  IF hours > 0
        THEN ToString(hours) \o ":" \o TwoDigits(minutes) \o ":" \o TwoDigits(secs)
        ELSE ToString(minutes) \o ":" \o TwoDigits(secs)

RECURSIVE JoinLines(_)
JoinLines(lines) ==
    IF Len(lines) = 0 THEN ""
    ELSE IF Len(lines) = 1 THEN lines[1]
    ELSE lines[1] \o "\n" \o JoinLines(Tail(lines))

\* AIService._combine_transcript_with_timestamps
combine_transcript_with_timestamps(ts) ==
    JoinLines([k \in 1..Len(ts) |->
        "[" \o format_timestamp(ts[k].start) \o "] " \o ts[k].text])

AnalysisTranscripts ==
    { <<[text |-> "intro", start |-> 0, duration |-> 65]>>,
      <<[text |-> "intro", start |-> 0, duration |-> 65],
        [text |-> "topic", start |-> 65, duration |-> 10]>>,
      <<[text |-> "late", start |-> 3661, duration |-> 5]>> }

\* JSON values, as far as generate_analysis looks at them. keys: the keys
\* of an object, or the strings among the items of an array. sized: whether
\* len() works on the values under "chapters" and "key_notes".
JObject(ks, sz) == [kind |-> "object", keys |-> ks, str |-> "", sized |-> sz]
JArray(items)   == [kind |-> "array", keys |-> items, str |-> "", sized |-> FALSE]
JString(t)      == [kind |-> "string", keys |-> {}, str |-> t, sized |-> FALSE]
JScalar         == [kind |-> "scalar", keys |-> {}, str |-> "", sized |-> FALSE]

\* The JSON documents among the payloads below, with their values:
\* json.loads of any other text here raises JSONDecodeError.
JsonDocs ==
    { <<"{\"chapters\": [], \"key_notes\": []}", JObject({"chapters", "key_notes"}, TRUE)>>,
      <<"{\"chapters\": 5, \"key_notes\": []}", JObject({"chapters", "key_notes"}, FALSE)>>,
      <<"{\"key_notes\": []}", JObject({"key_notes"}, TRUE)>>,
      <<"{\"chapters\": []}", JObject({"chapters"}, TRUE)>>,
      <<"{}", JObject({}, TRUE)>>,
      <<"[\"chapters\", \"key_notes\"]", JArray({"chapters", "key_notes"})>>,
      <<"[]", JArray({})>>,
      <<"\"chapters, key_notes\"", JString("chapters, key_notes")>>,
      <<"42", JScalar>>,
      <<"null", JScalar>> }

NotJson == {"", "Sorry, I cannot analyze this video.", "{\"chapters\": ["}

Payloads == {d[1] : d \in JsonDocs} \cup NotJson

\* What the capability puts around the payload. A TLA+ string cannot hold
\* the grave accent: "~" stands for it, so "~~~" is the markdown fence.
Openers == {"", " ", "~~~json\n", "~~~JSON\n", "~~~\n", "~~~python\n"}
Closers == {"", "\n", "\n~~~", "\n~~~\n"}

ResponseTexts == {o \o p \o c : o \in Openers, p \in Payloads, c \in Closers}

IsJson(t) == \E d \in JsonDocs : d[1] = t

\* json.loads of a text that is a JSON document
JsonValue(t) == (CHOOSE d \in JsonDocs : d[1] = t)[2]

\* Lines 129-137: strip, then the three slices.
StripFence(text) ==
    LET t0 == Strip(text)
        t1 == IF StartsWith(t0, "~~~json") THEN SubSeq(t0, 8, Len(t0)) ELSE t0
        t2 == IF StartsWith(t1, "~~~") THEN SubSeq(t1, 4, Len(t1)) ELSE t1
        t3 == IF EndsWith(t2, "~~~") THEN SubSeq(t2, 1, Len(t2) - 3) ELSE t2
    IN  t3

\* Python's `key in value`: "in", "not in", or the TypeError of a value
\* that is no container.
HasSubstring(t, key) == \E q \in 1..Len(t) : StartsAt(t, q, key)

Contains(v, key) ==
    IF v.kind = "scalar" THEN "TypeError"
    ELSE IF v.kind = "string" THEN (IF HasSubstring(v.str, key) THEN "in" ELSE "not in")
    ELSE IF key \in v.keys THEN "in" ELSE "not in"

Returned(v) == [kind |-> "return", value |-> v]
Raised(c) == [kind |-> "raise", cls |-> c]

\* Lines 153-156
FallbackAnalysis ==
    [chapters |-> <<[timestamp |-> "0:00", title |-> "Full Video"]>>,
     key_notes |-> <<[time |-> "0:00", note |-> "Analysis unavailable"]>>]

\* Lines 142-147 on the parsed value: the `in` tests (the second only when
\* the first found the key), the ValueError, then the log line's
\* len(analysis['chapters']) and len(analysis['key_notes']).
ValidateAnalysis(v) ==
    LET c1 == Contains(v, "chapters")
        c2 == Contains(v, "key_notes")
    IN  IF c1 = "TypeError" THEN Raised("TypeError")
        ELSE IF c1 = "not in" THEN Raised("ValueError")
        ELSE IF c2 = "not in" THEN Raised("ValueError")
        ELSE IF v.kind # "object" THEN Raised("TypeError")
        ELSE IF ~v.sized THEN Raised("TypeError")
        ELSE Returned(v)

\* The handlers, lines 149-159: JSONDecodeError returns the fallback, every
\* other exception is raised again.
ParseAnalysis(text) ==
    LET body == Strip(StripFence(text))
    IN  IF ~IsJson(body) THEN Returned(FallbackAnalysis)
        ELSE ValidateAnalysis(JsonValue(body))

\* Lines 88-126: the prompt is built and the capability called.
Analyze(ts) ==
    /\ an_pc = "idle"
    /\ an_pc' = "await"
    /\ an_prompt' = combine_transcript_with_timestamps(ts)
    /\ an_text' = ""
    /\ an_result' = NoOutcome
    /\ UNCHANGED <<acqVars, trVars, srvVars>>

\* The capability answers.
AnalyzeAnswer(text) ==
    /\ an_pc = "await"
    /\ an_pc' = "done"
    /\ an_text' = text
    /\ an_result' = ParseAnalysis(text)
    /\ UNCHANGED an_prompt
    /\ UNCHANGED <<acqVars, trVars, srvVars>>

\* The capability call raises: line 157-159 raise it again.
AnalyzeFails ==
    /\ an_pc = "await"
    /\ an_pc' = "done"
    /\ an_result' = Raised("APIError")
    /\ UNCHANGED <<an_prompt, an_text>>
    /\ UNCHANGED <<acqVars, trVars, srvVars>>

AnNext ==
    \/ \E ts \in AnalysisTranscripts : Analyze(ts)
    \/ \E text \in ResponseTexts : AnalyzeAnswer(text)
    \/ AnalyzeFails

SpecAnalyze == Init /\ [][AnNext]_vars

\* ------------------------------------------------------------ the server
\*
\* main.py serves every endpoint as an `async def` handler on the one event
\* loop of the process (uvicorn.run, lines 278-284). A handler holds the
\* loop from the moment it is resumed until it reaches an `await` that
\* suspends it, or ends. The services are module singletons shared by all
\* requests. What a service does inside one call is modelled above; here
\* the handlers are followed from one point where they wait to the next.

\* The keys of LANGUAGES
LANGUAGES ==
    {"af","sq","am","ar","hy","az","eu","be","bn","bs","bg","ca","ceb","ny",
     "zh-cn","zh-tw","co","hr","cs","da","nl","en","eo","et","tl","fi","fr",
     "fy","gl","ka","de","el","gu","ht","ha","haw","iw","he","hi","hmn","hu",
     "is","ig","id","ga","it","ja","jw","kn","kk","km","ko","ku","ky","lo",
     "la","lv","lt","lb","mk","mg","ms","ml","mt","mi","mr","mn","my","ne",
     "no","or","ps","fa","pl","pt","pa","ro","ru","sm","gd","sr","st","sn",
     "sd","si","sk","sl","so","es","su","sw","sv","tg","ta","te","th","tr",
     "uk","ur","ug","uz","vi","cy","xh","yi","yo","zu"}

UpperLetters == <<"A","B","C","D","E","F","G","H","I","J","K","L","M",
                  "N","O","P","Q","R","S","T","U","V","W","X","Y","Z">>
LowerLetters == <<"a","b","c","d","e","f","g","h","i","j","k","l","m",
                  "n","o","p","q","r","s","t","u","v","w","x","y","z">>

LowerChar(c) ==
    IF \E k \in 1..26 : UpperLetters[k] = c
    THEN LowerLetters[CHOOSE k \in 1..26 : UpperLetters[k] = c]
    ELSE c

\* str.lower()
RECURSIVE Lower(_)
Lower(t) == IF Len(t) = 0 THEN "" ELSE LowerChar(CharAt(t, 1)) \o Lower(SubSeq(t, 2, Len(t)))

\* TranslationService.validate_language
validate_language(lang_code) == Lower(lang_code) \in LANGUAGES

\* Request bodies: the endpoint, len(request.transcript), target_lang.
RequestLens == {0, 1, batch_size + 1}
RequestLangs == {"vi", "xx"}

RequestBodies ==
    {[kind |-> "transcript", n |-> 0, lang |-> ""]}
    \cup {[kind |-> k, n |-> n, lang |-> ""] : k \in {"summary", "analyze"}, n \in {0, 1}}
    \cup {[kind |-> "translate", n |-> n, lang |-> l] : n \in RequestLens, l \in RequestLangs}

\* A request arrives; its handler is scheduled on the event loop.
ReceiveRequest(s, body) ==
    /\ rq[s].pc = "free"
    /\ served < MaxRequests
    /\ served' = served + 1
    /\ rq' = [rq EXCEPT ![s] = [FreeSlot EXCEPT !.kind = body.kind, !.n = body.n,
                                                !.lang = body.lang, !.pc = "queued"]]
    /\ UNCHANGED running
    /\ UNCHANGED <<acqVars, trVars, anVars>>

\* main.get_transcript up to transcript_service.get_transcript(video_id), a
\* plain call: the handler keeps the loop while the transcript index is
\* asked (transcript_service.py line 50).
RunGetTranscript(s) ==
    /\ running = 0
    /\ rq[s].pc = "queued"
    /\ rq[s].kind = "transcript"
    /\ running' = s
    /\ rq' = [rq EXCEPT ![s].pc = "official", ![s].ext = 1]
    /\ UNCHANGED served
    /\ UNCHANGED <<acqVars, trVars, anVars>>

\* The transcript index answers, or the fetch fails and get_transcript goes
\* on, in the same call, to _transcribe_with_whisper and its download.
OfficialReturns(s, ok) ==
    /\ running = s
    /\ rq[s].pc = "official"
    /\ IF ok
       THEN /\ rq' = [rq EXCEPT ![s].pc = "done", ![s].status = 200]
            /\ running' = 0
       ELSE /\ rq' = [rq EXCEPT ![s].pc = "download", ![s].ext = @ + 1]
            /\ running' = s
    /\ UNCHANGED served
    /\ UNCHANGED <<acqVars, trVars, anVars>>

\* ydl.download returns: the error dict is answered, or the model is loaded
\* (when not cached) and transcribe is called, still in the same call.
DownloadReturns(s, ok) ==
    /\ running = s
    /\ rq[s].pc = "download"
    /\ IF ok
       THEN /\ rq' = [rq EXCEPT ![s].pc = "whisper"]
            /\ running' = s
       ELSE /\ rq' = [rq EXCEPT ![s].pc = "done", ![s].status = 200]
            /\ running' = 0
    /\ UNCHANGED served
    /\ UNCHANGED <<acqVars, trVars, anVars>>

\* whisper.load_model / transcribe return or raise; get_transcript returns
\* its dict either way and the endpoint answers.
WhisperReturns(s, o) ==
    /\ running = s
    /\ rq[s].pc = "whisper"
    /\ whisper_model' = IF o = "load_raises" /\ whisper_model = "None" THEN "None"
                        ELSE "loaded"
    /\ rq' = [rq EXCEPT ![s].pc = "done", ![s].status = 200]
    /\ running' = 0
    /\ UNCHANGED served
    /\ UNCHANGED <<pc, input, video_id, files, audio_path, exc, segs, result,
                   response, hist, calls>>
    /\ UNCHANGED <<trVars, anVars>>

\* main.generate_summary / analyze_video: the emptiness test, whose
\* ValueError the endpoint's own `except Exception` turns into
\* HTTPException(500); then ai_service.generate_*, a plain call holding the
\* loop while client.models.generate_content is waited for.
RunGenerate(s) ==
    /\ running = 0
    /\ rq[s].pc = "queued"
    /\ rq[s].kind \in {"summary", "analyze"}
    /\ IF rq[s].n = 0
       THEN /\ rq' = [rq EXCEPT ![s].pc = "done", ![s].status = 500,
                                ![s].detail = "Transcript cannot be empty"]
            /\ running' = 0
       ELSE /\ rq' = [rq EXCEPT ![s].pc = "generate", ![s].ext = 1]
            /\ running' = s
    /\ UNCHANGED served
    /\ UNCHANGED <<acqVars, trVars, anVars>>

\* generate_content returns or raises; an exception of the service is
\* answered 500.
GenerateReturns(s, ok) ==
    /\ running = s
    /\ rq[s].pc = "generate"
    /\ rq' = [rq EXCEPT ![s].pc = "done", ![s].status = IF ok THEN 200 ELSE 500,
                        ![s].detail = IF ok THEN "" ELSE "generation failed"]
    /\ running' = 0
    /\ UNCHANGED served
    /\ UNCHANGED <<acqVars, trVars, anVars>>

\* The call `self.translator.translate(...)` of translate_batch as issued
\* now: through whatever client self.translator refers to at this moment;
\* a closed client cannot send.
IssueCall == [client |-> translator, closed |-> translator \notin open_clients]

\* main.translate_transcript: the emptiness test (500 as above), then the
\* service's translate_transcript up to its first await: a client is
\* opened by `async with`, stored in self.translator, and the first batch
\* is submitted through self.translator.
RunTranslate(s) ==
    /\ running = 0
    /\ rq[s].pc = "queued"
    /\ rq[s].kind = "translate"
    /\ IF rq[s].n = 0
       THEN /\ rq' = [rq EXCEPT ![s].pc = "done", ![s].status = 500,
                                ![s].detail = "Transcript cannot be empty"]
            /\ UNCHANGED <<translator, clients, open_clients>>
       ELSE /\ clients' = clients + 1
            /\ translator' = clients + 1
            /\ open_clients' = open_clients \cup {clients + 1}
            /\ rq' = [rq EXCEPT ![s].pc = "await_batch", ![s].ctx = clients + 1,
                                ![s].call = [client |-> clients + 1, closed |-> FALSE],
                                ![s].ext = 1]
    /\ UNCHANGED <<running, served>>
    /\ UNCHANGED <<tr_pc, transcript, target_lang, translated, i, ctx_client, pending,
                   attempts, tr_log, first_input, passes, tt_pc, tt_text, tt_result,
                   tt_log>>
    /\ UNCHANGED <<acqVars, anVars>>

\* The awaited batch call comes back and the handler runs on to its next
\* await: the pacing sleep, or the end of the `async with` (which closes
\* the client it opened) and the answer. A short result list ends it with
\* IndexError, answered 500.
BatchReturns(s, o) ==
    /\ running = 0
    /\ rq[s].pc = "await_batch"
    /\ LET outcome == IF rq[s].call.closed THEN "raise" ELSE o
           entry   == [offset |-> rq[s].off, client |-> rq[s].call.client,
                       closed |-> rq[s].call.closed, outcome |-> outcome,
                       lang |-> rq[s].lang]
       IN  IF outcome = "short"
           THEN /\ rq' = [rq EXCEPT ![s].pc = "done", ![s].status = 500,
                                    ![s].detail = "list index out of range",
                                    ![s].log = Append(@, entry)]
                /\ open_clients' = open_clients \ {rq[s].ctx}
           ELSE IF rq[s].off + batch_size < rq[s].n
           THEN /\ rq' = [rq EXCEPT ![s].pc = "sleep", ![s].off = @ + batch_size,
                                    ![s].log = Append(@, entry)]
                /\ open_clients' = open_clients
           ELSE /\ rq' = [rq EXCEPT ![s].pc = "done", ![s].status = 200,
                                    ![s].off = @ + batch_size,
                                    ![s].log = Append(@, entry)]
                /\ open_clients' = open_clients \ {rq[s].ctx}
    /\ UNCHANGED <<running, served>>
    /\ UNCHANGED <<tr_pc, transcript, target_lang, translated, i, translator, ctx_client,
                   clients, pending, attempts, tr_log, first_input, passes,
                   tt_pc, tt_text, tt_result, tt_log>>
    /\ UNCHANGED <<acqVars, anVars>>

\* asyncio.sleep(0.5) is over: the next batch is submitted.
Wake(s) ==
    /\ running = 0
    /\ rq[s].pc = "sleep"
    /\ rq' = [rq EXCEPT ![s].pc = "await_batch", ![s].call = IssueCall,
                        ![s].ext = @ + 1]
    /\ UNCHANGED <<running, served>>
    /\ UNCHANGED <<acqVars, trVars, anVars>>

\* The answer has been sent: the request is over.
Close(s) ==
    /\ rq[s].pc = "done"
    /\ rq' = [rq EXCEPT ![s] = FreeSlot]
    /\ UNCHANGED <<running, served>>
    /\ UNCHANGED <<acqVars, trVars, anVars>>

\* The next step of the request in slot s.
Step(s) ==
    \/ RunGetTranscript(s)
    \/ \E ok \in BOOLEAN : OfficialReturns(s, ok)
    \/ \E ok \in BOOLEAN : DownloadReturns(s, ok)
    \/ \E o \in {"ok", "load_raises", "transcribe_raises"} : WhisperReturns(s, o)
    \/ RunGenerate(s)
    \/ \E ok \in BOOLEAN : GenerateReturns(s, ok)
    \/ RunTranslate(s)
    \/ \E o \in {"ok", "raise", "short"} : BatchReturns(s, o)
    \/ Wake(s)
    \/ Close(s)

ServerNext ==
    \/ \E s \in Slots, body \in RequestBodies : ReceiveRequest(s, body)
    \/ \E s \in Slots : RunGetTranscript(s)
    \/ \E s \in Slots, ok \in BOOLEAN : OfficialReturns(s, ok)
    \/ \E s \in Slots, ok \in BOOLEAN : DownloadReturns(s, ok)
    \/ \E s \in Slots, o \in {"ok", "load_raises", "transcribe_raises"} : WhisperReturns(s, o)
    \/ \E s \in Slots : RunGenerate(s)
    \/ \E s \in Slots, ok \in BOOLEAN : GenerateReturns(s, ok)
    \/ \E s \in Slots : RunTranslate(s)
    \/ \E s \in Slots, o \in {"ok", "raise", "short"} : BatchReturns(s, o)
    \/ \E s \in Slots : Wake(s)
    \/ \E s \in Slots : Close(s)

SpecServer == Init /\ [][ServerNext]_vars

\* =================================================================
\* Properties
\* =================================================================

\* get_transcript has ended (returned or raised) for the current request.
AcquireEnded == pc \in {"respond", "responded"} /\ (hist.returned \/ hist.raised)

\* C1: whenever the official-path fetch raised, get_transcript does not
\* raise, enters the offline path (at most once while it runs, exactly once
\* by the time it ends) and ends by returning a result that comes from the
\* offline path: the whisper transcript or the error result.
C1_FallbackOnceNoRaise ==
    hist.official_failed =>
        /\ ~hist.raised
        /\ hist.offline <= 1
        /\ pc \in {"load", "transcribe", "cleanup"} => hist.offline = 1
        /\ pc \in {"respond", "responded"} =>
              /\ hist.returned
              /\ hist.offline = 1
              /\ result.source \in {"whisper", "error"}

\* C1 witness: the official fetch raised, the download succeeded, the
\* transcription raised, and get_transcript returned the error result.
C1_Witness ==
    /\ pc = "responded"
    /\ hist.official_failed
    /\ hist.transcribe = 1
    /\ result.source = "error"
    /\ response.status = 200

\* The files of TEMP_DIR named after video v.
ScratchFilesOf(v) == {f \in files : StartsWith(f, v \o ".")}

\* C2: when get_transcript has ended after entering the offline path, no
\* audio file of that video is left in the scratch directory.
C2_NoScratchFileLeft ==
    (AcquireEnded /\ hist.offline >= 1) => ScratchFilesOf(video_id) = {}

\* C6: every result get_transcript returns has a source among youtube_api,
\* whisper and error; success is false exactly for error, and then the
\* transcript is empty and the error message is present and not empty; a
\* successful result carries no error message.
C6_ResultWellFormed ==
    (pc \in {"respond", "responded"} /\ hist.returned) =>
        /\ result.source \in {"youtube_api", "whisper", "error"}
        /\ (result.success = FALSE) <=> (result.source = "error")
        /\ result.success = FALSE =>
              /\ result.transcript = <<>>
              /\ "error" \in DOMAIN result
              /\ result.error # ""
        /\ result.success = TRUE => "error" \notin DOMAIN result

\* What the locator forms are, read off the string itself.
Schemes == {"", "http://", "https://"}
WatchHosts == {"youtube.com", "www.youtube.com", "m.youtube.com"}
ShortHosts == {"youtu.be", "www.youtu.be"}

\* An 11-character token that ends at offset p + 10: the string ends there,
\* or a delimiter of the URL follows.
TokenAt(s, p) ==
    /\ IdRunAt(s, p)
    /\ \/ p + IdLen - 1 = Len(s)
       \/ CharAt(s, p + IdLen) \in {"&", "#", "?"}

\* The ids a string carries as a full watch URL: some v= among its query
\* parameters holds an 11-character token.
WatchUrlIds(s) ==
    {SubSeq(s, q + 2, q + 1 + IdLen) : q \in
        {q \in 1..Len(s) :
            \E sch \in Schemes, h \in WatchHosts :
                LET pre == sch \o h \o "/watch?"
                IN  /\ StartsWith(s, pre)
                    /\ q > Len(pre)
                    /\ (q = Len(pre) + 1 \/ CharAt(s, q - 1) = "&")
                    /\ StartsAt(s, q, "v=")
                    /\ TokenAt(s, q + 2)}}

\* The ids a string carries as a short URL: the path segment is the token.
ShortUrlIds(s) ==
    {SubSeq(s, q, q + IdLen - 1) : q \in
        {q \in 1..Len(s) :
            \E sch \in Schemes, h \in ShortHosts :
                /\ StartsWith(s, sch \o h \o "/")
                /\ q = Len(sch \o h \o "/") + 1
                /\ TokenAt(s, q)}}

IsBareToken(s) == Len(s) = IdLen /\ IdRunAt(s, 1)

\* The ids a locator refers to, whatever its form.
LocatorIds(s) ==
    WatchUrlIds(s) \cup ShortUrlIds(s) \cup (IF IsBareToken(s) THEN {s} ELSE {})

\* A request has been received and validated.
Validated == pc # "idle"

\* C8: a request whose string (blanks around it set aside) is neither a full
\* watch URL, nor a short URL, nor a bare 11-character token is answered with the validation error and
\* the transcript service is never entered for it.
C8_MalformedRejected ==
    (Validated /\ LocatorIds(Strip(input)) = {}) =>
        /\ pc = "responded"
        /\ response.status = 422
        /\ hist = ZeroHist

\* C9: a watch URL with the id in its v= parameter (wherever v= stands), a
\* short URL with the id as path segment, and the bare id are all extracted
\* to that id.
C9_SameIdExtracted ==
    Validated =>
        \A id \in LocatorIds(input) : response.status # 422 /\ video_id = id

\* ----------------------------------------------------- translation

\* The segments of the batch a log entry stands for.
RangeOf(e) == (e.offset + 1)..(e.offset + e.size)

\* C3: a batch whose translation call failed is passed through: its output
\* segments carry their input text, and the failure never ends
\* translate_transcript (only a result list shorter than the batch does);
\* the segments of a batch whose call came back with a result per text
\* carry the translated text; a transcript that is returned has every
\* batch settled.
C3_FailedBatchPassedThrough ==
    /\ \A k \in 1..Len(tr_log) :
          /\ tr_log[k].outcome = "raise" =>
                /\ Len(translated) >= tr_log[k].offset + tr_log[k].size
                /\ \A j \in RangeOf(tr_log[k]) : translated[j].text = transcript[j].text
          /\ tr_log[k].outcome \in {"ok", "long"} =>
                \A j \in RangeOf(tr_log[k]) :
                    translated[j].text = Translated(transcript[j].text, target_lang)
    /\ tr_pc = "aborted" => tr_log[Len(tr_log)].outcome = "short"
    /\ tr_pc = "done" => Len(translated) = Len(transcript)

\* C3 witness: a returned transcript of several batches, one of which
\* failed and one of which was translated.
C3_Witness ==
    /\ tr_pc = "done"
    /\ Len(transcript) > batch_size
    /\ \E k \in 1..Len(tr_log) : tr_log[k].outcome = "raise"
    /\ \E k \in 1..Len(tr_log) : tr_log[k].outcome = "ok"
    /\ translated[1].text # translated[Len(translated)].text

\* The "call" events of translate_text's log.
TextCalls == {x \in 1..Len(tt_log) : tt_log[x].ev = "call"}

C5_ShapePreserved ==
    /\ tr_pc # "aborted"
    /\ tr_pc = "done" =>
          /\ Len(translated) = Len(transcript)
          /\ \A j \in 1..Len(transcript) :
                /\ translated[j].start = transcript[j].start
                /\ translated[j].duration = transcript[j].duration

\* The text a segment of the first input is to be traced to.
FirstText(seg) == IF "original" \in DOMAIN seg THEN seg.original ELSE seg.text

\* C7: in every pass, every output segment's original is the original its
\* segment carried into the first pass or, when it carried none, the text
\* it had in the first input.
C7_OriginalTracesToFirstInput ==
    \A j \in 1..Len(translated) : translated[j].original = FirstText(first_input[j])

\* C7 witness: a second pass has returned; a segment that came with an
\* original and one that came without are both translated, and a batch of
\* the second pass failed.
C7_Witness ==
    /\ tr_pc = "done"
    /\ passes = 2
    /\ Len(translated) > batch_size
    /\ "original" \in DOMAIN first_input[1]
    /\ "original" \notin DOMAIN first_input[2]
    /\ translated[2].text # first_input[2].text
    /\ transcript[2].text # first_input[2].text
    /\ \E k \in 1..Len(tr_log) : tr_log[k].outcome = "raise"

\* ------------------------------------------------------- analysis

\* JSON that lacks a key of the structure, or is no object at all.
LacksStructure(v) == v.kind # "object" \/ ~({"chapters", "key_notes"} \subseteq v.keys)

\* The answer's payload, the fence and the blanks around it taken off.
AnswerBody == Strip(StripFence(an_text))

\* C10: once the capability has answered with text that does not parse as
\* JSON, or parses to a value without the chapters or the key_notes key,
\* generate_analysis has returned the fixed fallback payload.
C10_MalformedGivesFallback ==
    (/\ an_pc = "done"
     /\ an_result # Raised("APIError")
     /\ (~IsJson(AnswerBody) \/ LacksStructure(JsonValue(AnswerBody))))
    => an_result = Returned(FallbackAnalysis)

\* The request in slot s has been answered.
Answered(s) == rq[s].pc = "done"

\* C11: a summary, analysis or translation request with an empty transcript
\* is answered without any call to an external capability, and the answer
\* is a client-side failure (a 4xx status).
C11_EmptyTranscriptClientFailure ==
    \A s \in Slots :
        (Answered(s) /\ rq[s].kind \in {"summary", "analyze", "translate"} /\ rq[s].n = 0)
            => /\ rq[s].ext = 0
               /\ rq[s].status \in 400..499

\* C12: a translation request whose target language is not in the
\* supported-language table never has a batch submitted with that code and
\* is never answered as a successful translation.
C12_UnsupportedLanguageRejected ==
    \A s \in Slots :
        (rq[s].kind = "translate" /\ ~validate_language(rq[s].lang))
            => /\ rq[s].pc # "await_batch"
               /\ \A k \in 1..Len(rq[s].log) : rq[s].log[k].lang # rq[s].lang
               /\ rq[s].status # 200

\* A fence opening with a language tag, and the fence closing.
TaggedFenceOpeners == {o \in Openers : Len(o) > 4 /\ StartsWith(o, "~~~")}
FenceClosers == {c \in Closers : StartsWith(c, "\n~~~")}

\* C13: for every JSON payload P, generate_analysis given P wrapped in a
\* fence with a language tag (any tag, any letter case) ends as it ends
\* given P alone.
C13_FencedParsesAsUnwrapped ==
    \A o \in TaggedFenceOpeners, c \in FenceClosers, p \in Payloads :
        (an_pc = "done" /\ IsJson(p) /\ an_text = o \o p \o c)
            => an_result = ParseAnalysis(p)

\* The batch calls of the request in slot s: those settled and the one in
\* flight.
BatchCallsOf(s) ==
    {[client |-> rq[s].log[k].client, closed |-> rq[s].log[k].closed] :
        k \in 1..Len(rq[s].log)}
    \cup (IF rq[s].pc = "await_batch" THEN {rq[s].call} ELSE {})

\* C14: every batch call of a translation request goes through the client
\* that request opened, and that client is open when the call is made.
C14_BatchThroughOwnOpenClient ==
    \A s \in Slots :
        rq[s].kind = "translate" =>
            \A c \in BatchCallsOf(s) : c.client = rq[s].ctx /\ ~c.closed

\* The request in slot s waits for the transcript index, the audio
\* download, the speech-to-text model or the generative capability.
WaitsForCapability(s) == rq[s].pc \in {"official", "download", "whisper", "generate"}

\* The request in slot s has been received and not yet answered.
InFlight(s) == rq[s].pc \notin {"free", "done"}

\* C15: while a request waits for the transcript index, the download, the
\* transcription or the generative capability, every other request in
\* flight can take its next step.
C15_WaitDoesNotBlockOthers ==
    \A a \in Slots, b \in Slots :
        (a # b /\ WaitsForCapability(a) /\ InFlight(b)) => ENABLED Step(b)

\* Within one get_transcript call: each path is entered at most once, the
\* offline path only after the official path failed, and the official path
\* not again once the offline path has started.
PathsLinear ==
    /\ hist.official <= 1
    /\ hist.download <= 1
    /\ hist.load <= 1
    /\ hist.transcribe <= 1
    /\ hist.offline > 0 => (hist.official = 1 /\ hist.official_failed)
    /\ pc \in {"download", "load", "transcribe", "cleanup"} => hist.official_failed
    /\ pc = "official" => (hist.official = 0 /\ hist.offline = 0)
    /\ (hist.returned /\ ~hist.official_failed) => hist.offline = 0

C17_ModelLoadedOnceAndReused ==
    [][ /\ (whisper_model = "loaded" =>
                (whisper_model' = "loaded" /\ hist'.load <= hist.load))
        /\ (hist'.load > hist.load =>
                (pc = "load" /\ whisper_model = "None" /\ hist.download = 1))
        /\ (whisper_model' # whisper_model => hist'.load > hist.load)
        /\ ((hist'.load > hist.load /\ pc' = "cleanup") => whisper_model' = "None")
        /\ (pc' = "transcribe" => whisper_model' = "loaded")
        /\ ((pc = "download" /\ pc' \in {"load", "transcribe"}) =>
                (pc' = "load" <=> whisper_model = "None"))
      ]_vars

\* C17 witness: a second call reaches transcription with the model the
\* first call loaded, without loading.
C17_Witness ==
    /\ calls = 2
    /\ pc = "transcribe"
    /\ hist.load = 0
    /\ whisper_model = "loaded"

\* The 1-based positions of the segments in the k-th batch submitted.
BatchPositions(k) == (tr_log[k].offset + 1)..(tr_log[k].offset + tr_log[k].size)

\* C18: the batches submitted so far are the first slices of the transcript
\* in input order: the k-th starts right after the (k-1)-th, holds exactly
\* batch_size segments unless it is the last (then 1 to batch_size), and
\* was submitted in one call; a batch is submitted only when all batches
\* before it are settled, with the texts of all its segments together; and
\* when the pass is done every segment is in exactly one batch.
C18_BatchesPartitionInOrder ==
    LET n == Len(transcript)
    IN  /\ \A k \in 1..Len(tr_log) :
              /\ tr_log[k].offset = (k - 1) * batch_size
              /\ tr_log[k].size \in 1..batch_size
              /\ tr_log[k].offset + tr_log[k].size <= n
              /\ tr_log[k].size < batch_size => tr_log[k].offset + tr_log[k].size = n
              /\ tr_log[k].attempts = 1
        /\ tr_pc \in {"batch", "settle", "sleep"} =>
              (i = Len(tr_log) * batch_size /\ i < n)
        /\ (tr_pc = "settle" /\ pending.kind = "ok") =>
              pending.results =
                  [j \in 1..(IF i + batch_size < n THEN batch_size ELSE n - i) |->
                      Translated(transcript[i + j].text, target_lang)]
        /\ tr_pc = "done" =>
              \A j \in 1..n :
                  Cardinality({k \in 1..Len(tr_log) : j \in BatchPositions(k)}) = 1

\* C18 witness: a transcript of two full batches and one more segment has
\* been translated in three batches.
C18_Witness ==
    /\ tr_pc = "done"
    /\ Len(transcript) = 2 * batch_size + 1
    /\ Len(tr_log) = 3
    /\ tr_log[3].size = 1
====
